---------------------------- MODULE Spec2Model ----------------------------
(***************************************************************************)
(* Task list manager: the task functions of src/src/tasks.py (validation,  *)
(* id generation, JSON load/save) and the session handlers of              *)
(* src/src/app.py, as state machines.                                      *)
(*                                                                         *)
(* Python values are boxed with their type, so that None, "", 0 and False  *)
(* stay distinct:  [ty |-> "NoneType"], [ty |-> "int", v |-> 3],           *)
(* [ty |-> "bool", v |-> TRUE], [ty |-> "str", v |-> text].  A dict is the *)
(* TLA+ function from the keys it holds to boxed values.                   *)
(*                                                                         *)
(* Texts: a title or a description is the sequence of its characters; a    *)
(* priority or a category is a TLA+ string (only ever compared whole); a   *)
(* date text is the sequence of its "-"-separated numeric fields, so       *)
(* "2024-02-29" is <<2024, 2, 29>>, "31-12-2024" is <<31, 12, 2024>>, and  *)
(* a text with no numeric fields ("invalid-date") is << >>.                *)
(***************************************************************************)
EXTENDS Integers, Sequences, FiniteSets, TLC

VARIABLES
    tasks,         \* the task collection of the session / the argument list
    ret,           \* what the last operation returned or raised
    clock,         \* wall clock (datetime.now()), in days since Epoch
    fs,            \* the file system: path -> file content
    mem,           \* store sessions: session -> its in-memory collection
    phase,         \* store sessions: session -> how far it is in its round
    editing_task   \* st.session_state.editing_task of the UI session

vars == <<tasks, ret, clock, fs, mem, phase, editing_task>>

---------------------------------------------------------------------------
(* Bounds of the model *)

\* longest task collection explored
MaxTasks == 2

\* last wall-clock day explored
MaxClock == 2

\* the largest id assigned
MaxId == 4

---------------------------------------------------------------------------
(* Python values *)

PyNone == [ty |-> "NoneType"]

PyInt(n) == [ty |-> "int", v |-> n]

PyBool(b) == [ty |-> "bool", v |-> b]

PyStr(s) == [ty |-> "str", v |-> s]

\* a dict as a Python value
Dict(d) == [ty |-> "dict", v |-> d]

\* bool(x) of a Python value: None, 0, False and "" are falsy
Truthy(x) ==
    CASE x.ty = "NoneType" -> FALSE
      [] x.ty = "int"      -> x.v # 0
      [] x.ty = "bool"     -> x.v
      [] x.ty = "str"      -> Len(x.v) # 0
      [] OTHER             -> TRUE

\* d.get(k, default)
Get(d, k, default) == IF k \in DOMAIN d THEN d[k] ELSE default

\* d[k] = x on a dict
SetItem(d, k, x) == [f \in DOMAIN d \cup {k} |-> IF f = k THEN x ELSE d[f]]

REQUIRED_TASK_PROPERTIES ==
    <<"id", "title", "description", "priority", "category", "due_date",
      "completed", "created_at">>

PRIORITIES == {"High", "Medium", "Low"}

---------------------------------------------------------------------------
(* Calendar: datetime.strptime(s, "%Y-%m-%d"), strftime, datetime.now() *)

IsLeap(y) == (y % 4 = 0 /\ y % 100 # 0) \/ y % 400 = 0

DaysInMonth(y, m) ==
    IF m = 2 THEN (IF IsLeap(y) THEN 29 ELSE 28)
    ELSE IF m \in {4, 6, 9, 11} THEN 30 ELSE 31

\* strptime(text, "%Y-%m-%d") succeeds: three fields, a four-digit year, a
\* month of the year and a day of that month.  Otherwise it raises
\* ValueError.
DateParses(text) ==
    /\ Len(text) = 3
    /\ text[1] \in 1000..9999
    /\ text[2] \in 1..12
    /\ text[3] \in 1..DaysInMonth(text[1], text[2])

\* date.strftime("%Y-%m-%d")
FormatDate(d) == <<d[1], d[2], d[3]>>

\* date1 < date2
DateLess(a, b) ==
    \/ a[1] < b[1]
    \/ a[1] = b[1] /\ a[2] < b[2]
    \/ a[1] = b[1] /\ a[2] = b[2] /\ a[3] < b[3]

NextDay(d) ==
    IF d[3] < DaysInMonth(d[1], d[2]) THEN <<d[1], d[2], d[3] + 1>>
    ELSE IF d[2] < 12 THEN <<d[1], d[2] + 1, 1>>
    ELSE <<d[1] + 1, 1, 1>>

\* the day the wall clock starts on
Epoch == <<2024, 2, 28>>

RECURSIVE Today(_)
\* datetime.now().date() when the clock reads c
Today(c) == IF c = 0 THEN Epoch ELSE NextDay(Today(c - 1))

\* datetime.now().strftime("%Y-%m-%d")
TodayText(c) == FormatDate(Today(c))

\* datetime.now().strftime("%Y-%m-%d %H:%M:%S"): the date fields, then the
\* time of day (the clock ticks in whole days)
NowText(c) == FormatDate(Today(c)) \o <<0, 0, 0>>

---------------------------------------------------------------------------
(* tasks.py: validate_task *)

\* mutant of Defaults: a missing priority defaults to Medium
DefaultsMedium(c) ==
    [id          |-> PyNone,
     title       |-> PyStr(<< >>),
     description |-> PyStr(<< >>),
     priority    |-> PyStr("Medium"),
     category    |-> PyStr("Other"),
     due_date    |-> PyStr(TodayText(c)),
     completed   |-> PyBool(FALSE),
     created_at  |-> PyStr(NowText(c))]

\* the defaults dict of validate_task
Defaults(c) ==
    [id          |-> PyNone,
     title       |-> PyStr(<< >>),
     description |-> PyStr(<< >>),
     priority    |-> PyStr("Low"),
     category    |-> PyStr("Other"),
     due_date    |-> PyStr(TodayText(c)),
     completed   |-> PyBool(FALSE),
     created_at  |-> PyStr(NowText(c))]

\* mutant of FillDefaults: a missing title is filled with a placeholder
FillDefaultsUntitled(d, c) ==
    [k \in DOMAIN d \cup DOMAIN Defaults(c) |->
        IF k \in DOMAIN d THEN d[k]
        ELSE IF k = "title" THEN PyStr(<<"U">>) ELSE Defaults(c)[k]]

\* mutant of FillDefaults: created_at is set to now on every validation
FillDefaultsRestamped(d, c) ==
    [k \in DOMAIN d \cup DOMAIN Defaults(c) |->
        IF k \in DOMAIN d /\ k # "created_at" THEN d[k] ELSE Defaults(c)[k]]

\* "for key, default_value in defaults.items(): if key not in task: ..."
FillDefaults(d, c) ==
    [k \in DOMAIN d \cup DOMAIN Defaults(c) |->
        IF k \in DOMAIN d THEN d[k] ELSE Defaults(c)[k]]

\* mutant of CoercePriority: the priority is left as it is
CoercePriorityKeep(d) == d

\* "if task["priority"] not in [...]: task["priority"] = "Low""
CoercePriority(d) ==
    IF d["priority"].ty = "str" /\ d["priority"].v \in PRIORITIES
    THEN d ELSE SetItem(d, "priority", PyStr("Low"))

\* "try: strptime(task["due_date"], ...) except ValueError: ... = today"
CoerceDueDate(d, c) ==
    IF DateParses(d["due_date"].v) THEN d
    ELSE SetItem(d, "due_date", PyStr(TodayText(c)))

\* validate_task(task) at clock c.  x is a Python value: a dict is boxed as
\* [ty |-> "dict", v |-> d].  Returns what it returned (val), what it
\* raised (exc, "" when nothing) and the argument as it left it (arg).
validate_task(x, c) ==
    IF x.ty # "dict" THEN [exc |-> "", val |-> FALSE, arg |-> x]
    ELSE LET filled == FillDefaults(x.v, c)
         IN  IF ~Truthy(filled["title"])
             THEN [exc |-> "", val |-> FALSE, arg |-> Dict(filled)]
             ELSE LET p == CoercePriority(filled)
                  IN  IF p["due_date"].ty # "str"
                      THEN [exc |-> "TypeError", val |-> FALSE,
                            arg |-> Dict(p)]
                      ELSE [exc |-> "", val |-> TRUE,
                            arg |-> Dict(CoerceDueDate(p, c))]

---------------------------------------------------------------------------
(* tasks.py: create_task *)

\* "x or default" on a string
OrElse(x, default) == IF Truthy(x) THEN x ELSE default

\* the dict create_task builds from its arguments once priority and due_date
\* have been looked at, with the id it gives it
NewTask(id, title, description, priority, category, due_date, c) ==
    [id          |-> id,
     title       |-> title,
     description |-> OrElse(description, PyStr(<< >>)),
     priority    |-> IF priority.ty = "str" /\ priority.v \in PRIORITIES
                     THEN priority ELSE PyStr("Low"),
     category    |-> OrElse(category, PyStr("Other")),
     due_date    |-> IF DateParses(due_date.v) THEN due_date
                     ELSE PyStr(TodayText(c)),
     completed   |-> PyBool(FALSE),
     created_at  |-> PyStr(NowText(c))]

\* create_task's last step: "if not validate_task(task): raise ValueError"
Validated(task, c) ==
    LET r == validate_task(Dict(task), c)
    IN  IF r.exc # "" THEN [exc |-> r.exc, val |-> PyNone]
        ELSE IF ~r.val THEN [exc |-> "ValueError", val |-> PyNone]
        ELSE [exc |-> "", val |-> r.arg]

\* mutant of create_task: an empty title is replaced by a placeholder
create_task_untitled(title, description, priority, category, due_date, c) ==
    IF due_date.ty # "str" THEN [exc |-> "TypeError", val |-> PyNone]
    ELSE Validated(NewTask(PyNone, OrElse(title, PyStr(<<"U">>)), description,
                           priority, category, due_date, c), c)

\* mutant of create_task: the new task is numbered 1 at once
create_task_numbered(title, description, priority, category, due_date, c) ==
    IF ~Truthy(title) THEN [exc |-> "ValueError", val |-> PyNone]
    ELSE IF due_date.ty # "str" THEN [exc |-> "TypeError", val |-> PyNone]
    ELSE Validated(NewTask(PyInt(1), title, description, priority, category,
                           due_date, c), c)

\* create_task(title, description, priority, category, due_date) at clock
\* c: what it raised (exc, "" when nothing) and the dict it returned (val)
create_task(title, description, priority, category, due_date, c) ==
    IF ~Truthy(title) THEN [exc |-> "ValueError", val |-> PyNone]
    ELSE IF due_date.ty # "str" THEN [exc |-> "TypeError", val |-> PyNone]
    ELSE Validated(NewTask(PyNone, title, description, priority, category,
                           due_date, c), c)

---------------------------------------------------------------------------
(* tasks.py: generate_unique_id *)

\* max(...) of a non-empty set of integers
MaxOf(S) == CHOOSE m \in S : \A y \in S : y <= m

\* mutant of IdsOf: task.get("id", -1)
IdsOfMinusOne(ts) == [i \in 1..Len(ts) |-> Get(ts[i], "id", PyInt(-1))]

\* [task.get("id", 0) for task in tasks]
IdsOf(ts) == [i \in 1..Len(ts) |-> Get(ts[i], "id", PyInt(0))]

\* mutant of generate_unique_id: one more than the number of tasks
generate_unique_id_count(ts) == [exc |-> "", val |-> Len(ts) + 1]

\* generate_unique_id(tasks): max() and "+ 1" raise TypeError on a None id
generate_unique_id(ts) ==
    IF Len(ts) = 0 THEN [exc |-> "", val |-> 1]
    ELSE IF \E i \in 1..Len(ts) : IdsOf(ts)[i].ty # "int"
         THEN [exc |-> "TypeError", val |-> 0]
         ELSE [exc |-> "",
               val |-> MaxOf({IdsOf(ts)[i].v : i \in 1..Len(ts)}) + 1]

---------------------------------------------------------------------------
(* tasks.py: save_tasks and load_tasks.  A file's content is the sequence  *)
(* of chunks json.dump wrote to it: brackets, keys and scalar values       *)
(* (separators and indentation carry no information and are left out).     *)
(* Content from elsewhere may also hold words that are no JSON and bytes   *)
(* that are no UTF-8.                                                      *)

\* a list as a Python value
List(xs) == [ty |-> "list", v |-> xs]

\* the task collection ts as the Python list of dicts it is
ListOf(ts) == List([i \in 1..Len(ts) |-> Dict(ts[i])])

\* the collection a Python list of dicts is
TasksOf(x) == [i \in 1..Len(x.v) |-> x.v[i].v]

Tok(t) == [t |-> t]

TokV(t, v) == [t |-> t, v |-> v]

\* the keys of a dict in the order json.dump writes them (the order of
\* REQUIRED_TASK_PROPERTIES; a dict's own insertion order is not modelled)
KeysOf(d) ==
    SelectSeq(REQUIRED_TASK_PROPERTIES, LAMBDA k : k \in DOMAIN d)

RECURSIVE JsonDumps(_), DumpElems(_, _), DumpMembers(_, _)
\* json.dump(x, f, indent=2): the chunks written for the value x
JsonDumps(x) ==
    CASE x.ty = "NoneType" -> <<Tok("null")>>
      [] x.ty = "bool"     -> <<Tok(IF x.v THEN "true" ELSE "false")>>
      [] x.ty = "int"      -> <<TokV("number", x.v)>>
      [] x.ty = "str"      -> <<TokV("string", x.v)>>
      [] x.ty = "list"     -> <<Tok("[")>> \o DumpElems(x.v, 1) \o <<Tok("]")>>
      [] x.ty = "dict"     ->
            <<Tok("{")>> \o DumpMembers(x.v, KeysOf(x.v)) \o <<Tok("}")>>

DumpElems(xs, i) ==
    IF i > Len(xs) THEN << >> ELSE JsonDumps(xs[i]) \o DumpElems(xs, i + 1)

DumpMembers(d, keys) ==
    IF keys = << >> THEN << >>
    ELSE <<TokV("key", Head(keys))>> \o JsonDumps(d[Head(keys)])
            \o DumpMembers(d, Tail(keys))

ParseError == [ok |-> FALSE]

RECURSIVE ParseValue(_, _), ParseElems(_, _, _), ParseMembers(_, _, _)
\* the JSON value that starts at chunk i: [ok, val, next]
ParseValue(toks, i) ==
    IF i > Len(toks) THEN ParseError
    ELSE CASE toks[i].t = "null"   -> [ok |-> TRUE, val |-> PyNone, next |-> i + 1]
           [] toks[i].t = "true"   -> [ok |-> TRUE, val |-> PyBool(TRUE), next |-> i + 1]
           [] toks[i].t = "false"  -> [ok |-> TRUE, val |-> PyBool(FALSE), next |-> i + 1]
           [] toks[i].t = "number" -> [ok |-> TRUE, val |-> PyInt(toks[i].v), next |-> i + 1]
           [] toks[i].t = "string" -> [ok |-> TRUE, val |-> PyStr(toks[i].v), next |-> i + 1]
           [] toks[i].t = "["      -> ParseElems(toks, i + 1, << >>)
           [] toks[i].t = "{"      -> ParseMembers(toks, i + 1, [k \in {} |-> PyNone])
           [] OTHER                -> ParseError

ParseElems(toks, i, acc) ==
    IF i > Len(toks) THEN ParseError
    ELSE IF toks[i].t = "]" THEN [ok |-> TRUE, val |-> List(acc), next |-> i + 1]
    ELSE LET r == ParseValue(toks, i)
         IN  IF ~r.ok THEN ParseError
             ELSE ParseElems(toks, r.next, Append(acc, r.val))

ParseMembers(toks, i, acc) ==
    IF i > Len(toks) THEN ParseError
    ELSE IF toks[i].t = "}" THEN [ok |-> TRUE, val |-> Dict(acc), next |-> i + 1]
    ELSE IF toks[i].t # "key" THEN ParseError
    ELSE LET r == ParseValue(toks, i + 1)
         IN  IF ~r.ok THEN ParseError
             ELSE ParseMembers(toks, r.next, SetItem(acc, toks[i].v, r.val))

\* json.loads(text): the value, or JSONDecodeError when the text is not one
\* JSON value from its first chunk to its last
JsonLoads(toks) ==
    LET r == ParseValue(toks, 1)
    IN  IF r.ok /\ r.next = Len(toks) + 1
        THEN [exc |-> "", val |-> r.val]
        ELSE [exc |-> "JSONDecodeError", val |-> PyNone]

\* f.read() of a file opened in text mode decodes its bytes
Decodes(data) == \A i \in 1..Len(data) : data[i].t # "byte"

TASKS_FILE == "tasks.json"

\* the path of the tests' read-only location; its directory does not exist
READONLY_FILE == "/readonly/location/tasks.json"

Paths == {TASKS_FILE, READONLY_FILE}

\* open(path, "w") succeeds
Writable(path) == path = TASKS_FILE

NoFile == [exists |-> FALSE, data |-> << >>]

File(data) == [exists |-> TRUE, data |-> data]

\* load_tasks(tasks_file) on the file system files
load_tasks(path, files) ==
    IF ~files[path].exists THEN [exc |-> "", val |-> List(<< >>)]
    ELSE IF ~Decodes(files[path].data)
         THEN [exc |-> "UnicodeDecodeError", val |-> PyNone]
         ELSE LET r == JsonLoads(files[path].data)
              IN  IF r.exc = "JSONDecodeError"
                  THEN [exc |-> "", val |-> List(<< >>)]
                  ELSE [exc |-> "", val |-> r.val]

\* mutant of save_tasks: the file is opened with "a" and the dump appended
save_tasks_append(ts, path, files, accepted) ==
    IF ~Writable(path) THEN [exc |-> "OSError", fs |-> files]
    ELSE LET out == JsonDumps(ListOf(ts))
         IN  IF accepted < Len(out)
             THEN [exc |-> "OSError",
                   fs |-> [files EXCEPT ![path] =
                              File(@.data \o SubSeq(out, 1, accepted))]]
             ELSE [exc |-> "", fs |-> [files EXCEPT ![path] = File(@.data \o out)]]

\* mutant of save_tasks: an OSError of open or write is caught and dropped
save_tasks_quiet(ts, path, files, accepted) ==
    IF ~Writable(path) THEN [exc |-> "", fs |-> files]
    ELSE LET out == JsonDumps(ListOf(ts))
         IN  [exc |-> "",
              fs |-> [files EXCEPT ![path] =
                         File(SubSeq(out, 1,
                                 IF accepted < Len(out) THEN accepted ELSE Len(out)))]]

\* mutant of save_tasks: the file is opened with "x", which refuses a file
\* that exists
save_tasks_exclusive(ts, path, files, accepted) ==
    IF ~Writable(path) \/ files[path].exists
    THEN [exc |-> "OSError", fs |-> files]
    ELSE [exc |-> "", fs |-> [files EXCEPT ![path] = File(JsonDumps(ListOf(ts)))]]

\* save_tasks(tasks, tasks_file) on the file system files, when the system
\* accepts the first `accepted` chunks of the dump (all of them when it
\* does not fail).  open(path, "w") raises on a path that is not writable,
\* and truncates the file otherwise; a failed write raises after the chunks
\* before it reached the file.
save_tasks(ts, path, files, accepted) ==
    IF ~Writable(path) THEN [exc |-> "OSError", fs |-> files]
    ELSE LET out == JsonDumps(ListOf(ts))
         IN  IF accepted < Len(out)
             THEN [exc |-> "OSError",
                   fs |-> [files EXCEPT ![path] = File(SubSeq(out, 1, accepted))]]
             ELSE [exc |-> "", fs |-> [files EXCEPT ![path] = File(out)]]

---------------------------------------------------------------------------
(* The task functions applied to collections the program can hold *)

\* {**a, **b}
Merge(a, b) ==
    [k \in DOMAIN a \cup DOMAIN b |-> IF k \in DOMAIN b THEN b[k] ELSE a[k]]

\* the dict d without the keys K
Without(d, K) == [k \in DOMAIN d \ K |-> d[k]]

\* a record with all eight properties, as create_task builds it
FullTask(id, title, priority, due, done) ==
    [id          |-> id,
     title       |-> PyStr(title),
     description |-> PyStr(<<"d">>),
     priority    |-> PyStr(priority),
     category    |-> PyStr("Work"),
     due_date    |-> PyStr(due),
     completed   |-> PyBool(done),
     created_at  |-> PyStr(NowText(0))]

\* complete records that differ in their id: an integer, None (create_task,
\* validate_task's default) or no id key (the form of app.py)
IdFamily ==
    {FullTask(i, <<"A", "b">>, "High", <<2024, 2, 27>>, FALSE) :
        i \in {PyNone, PyInt(1), PyInt(2)}}
    \cup {Without(FullTask(PyInt(1), <<"A", "b">>, "Medium",
                           <<2024, 2, 29>>, TRUE), {"id"})}

\* raw dicts as a caller hands them to validate_task: title missing, empty
\* or given; priority and due_date missing, valid or invalid
TitleOpts ==
    {[k \in {} |-> PyNone], [title |-> PyStr(<< >>)],
     [title |-> PyStr(<<"A", "b">>)]}

PriorityDueOpts ==
    {[k \in {} |-> PyNone],
     [priority |-> PyStr("Medium"), due_date |-> PyStr(<<2024, 2, 29>>)],
     [priority |-> PyStr("Bogus"), due_date |-> PyStr(<<31, 12, 2024>>)],
     [priority |-> PyStr("High"), due_date |-> PyStr(<<2023, 2, 29>>)],
     [priority |-> PyStr(""), due_date |-> PyStr(<< >>)]}

ValidateFamily == {Merge(t, pd) : t \in TitleOpts, pd \in PriorityDueOpts}

\* the collections of at most MaxTasks tasks of S
Collections(S) == UNION {[1..n -> S] : n \in 0..MaxTasks}

\* the argument lists: collections of records that differ in their id, and
\* single raw dicts
FnInputs == Collections(IdFamily) \cup {<<t>> : t \in ValidateFamily}

\* values that are not a dict
NonDicts == {PyNone, List(<< >>)}

NoCall == [fn |-> "none"]

InitFn ==
    /\ tasks \in FnInputs
    /\ clock \in 0..MaxClock
    /\ ret = NoCall
    /\ fs = [p \in {} |-> PyNone]
    /\ mem = << >>
    /\ phase = << >>
    /\ editing_task = PyNone

\* a caller computes generate_unique_id(tasks)
GenerateUniqueId ==
    /\ ret' = [fn |-> "generate_unique_id", arg |-> tasks,
               exc |-> generate_unique_id(tasks).exc,
               val |-> generate_unique_id(tasks).val]
    /\ UNCHANGED <<tasks, clock, fs, mem, phase, editing_task>>

\* a caller validates the i-th task of the collection, in place
ValidateTask ==
    \E i \in 1..Len(tasks) :
        LET r == validate_task(Dict(tasks[i]), clock)
        IN  /\ tasks' = [tasks EXCEPT ![i] = r.arg.v]
            /\ ret' = [fn |-> "validate_task", i |-> i,
                       arg |-> Dict(tasks[i]), exc |-> r.exc,
                       val |-> r.val, after |-> r.arg]
            /\ UNCHANGED <<clock, fs, mem, phase, editing_task>>

\* a caller hands validate_task something that is not a dict
ValidateNonDict ==
    \E x \in NonDicts :
        LET r == validate_task(x, clock)
        IN  /\ ret' = [fn |-> "validate_task", i |-> 0, arg |-> x,
                       exc |-> r.exc, val |-> r.val, after |-> r.arg]
            /\ UNCHANGED <<tasks, clock, fs, mem, phase, editing_task>>

\* the arguments callers give create_task
CreateTitles == {<< >>, <<"A", "b">>}

CreateDescriptions == {<< >>, <<"d">>}

CreatePriorities == {"High", "Medium", "Low", "Bogus"}

CreateCategories == {"", "Work"}

CreateDueDates == {<<2024, 2, 29>>, <<31, 12, 2024>>, <<2023, 2, 29>>, << >>}

\* a caller builds a task with create_task; at is the clock of the call
CreateTask ==
    \E title \in CreateTitles, description \in CreateDescriptions,
       priority \in CreatePriorities, category \in CreateCategories,
       due_date \in CreateDueDates :
        LET r == create_task(PyStr(title), PyStr(description), PyStr(priority),
                             PyStr(category), PyStr(due_date), clock)
        IN  /\ ret' = [fn |-> "create_task", title |-> title,
                       description |-> description, priority |-> priority,
                       category |-> category, due_date |-> due_date,
                       at |-> clock, exc |-> r.exc, val |-> r.val]
            /\ UNCHANGED <<tasks, clock, fs, mem, phase, editing_task>>

NextFn == GenerateUniqueId \/ ValidateTask \/ ValidateNonDict

SpecFn == InitFn /\ [][NextFn]_vars

\* a caller of create_task: no collection is involved
InitCreate ==
    /\ tasks = << >>
    /\ clock = 0
    /\ ret = NoCall
    /\ fs = [p \in {} |-> PyNone]
    /\ mem = << >>
    /\ phase = << >>
    /\ editing_task = PyNone

\* a day passes: datetime.now() moves on
Tick ==
    /\ clock < MaxClock
    /\ clock' = clock + 1
    /\ UNCHANGED <<tasks, ret, fs, mem, phase, editing_task>>

NextCreate == CreateTask \/ Tick

SpecCreate == InitCreate /\ [][NextCreate]_vars

---------------------------------------------------------------------------
(* tasks.py: the query functions.  The list a query returns holds the very *)
(* dict objects of the list it was given, so its result is the sequence of *)
(* their positions in that list (pos).                                     *)

\* the positions of a list, in order
Positions(ts) == [i \in 1..Len(ts) |-> i]

\* the elements of ts at the positions pos
Pick(ts, pos) == [i \in 1..Len(pos) |-> ts[pos[i]]]

\* mutant of filter_tasks_by_priority: a task without a priority counts as
\* Low
filter_tasks_by_priority_default(ts, priority) ==
    IF priority = PyStr("NonExistent") THEN << >>
    ELSE SelectSeq(Positions(ts),
            LAMBDA i : Get(ts[i], "priority", PyStr("Low")) = priority)

\* filter_tasks_by_priority(tasks, priority)
filter_tasks_by_priority(ts, priority) ==
    IF priority = PyStr("NonExistent") THEN << >>
    ELSE SelectSeq(Positions(ts),
            LAMBDA i : Get(ts[i], "priority", PyNone) = priority)

\* mutant of filter_tasks_by_category: no "NonExistent" shortcut
filter_tasks_by_category_plain(ts, category) ==
    SelectSeq(Positions(ts),
        LAMBDA i : Get(ts[i], "category", PyNone) = category)

\* filter_tasks_by_category(tasks, category)
filter_tasks_by_category(ts, category) ==
    IF category = PyStr("NonExistent") THEN << >>
    ELSE SelectSeq(Positions(ts),
            LAMBDA i : Get(ts[i], "category", PyNone) = category)

\* mutant of filter_tasks_by_completion: task.get("completed", False)
filter_tasks_by_completion_default(ts, completed) ==
    SelectSeq(Positions(ts),
        LAMBDA i : Get(ts[i], "completed", PyBool(FALSE)) = completed)

\* mutant of filter_tasks_by_completion: the truth value of
\* task.get("completed") is compared
filter_tasks_by_completion_truthy(ts, completed) ==
    SelectSeq(Positions(ts),
        LAMBDA i : Truthy(Get(ts[i], "completed", PyNone)) = completed.v)

\* filter_tasks_by_completion(tasks, completed)
filter_tasks_by_completion(ts, completed) ==
    SelectSeq(Positions(ts),
        LAMBDA i : Get(ts[i], "completed", PyNone) = completed)

\* str.lower() on one character of the alphabet used here
LowerChar(ch) ==
    CASE ch = "A" -> "a"
      [] ch = "B" -> "b"
      [] ch = "C" -> "c"
      [] OTHER    -> ch

\* str.lower()
Lower(s) == [i \in 1..Len(s) |-> LowerChar(s[i])]

\* "q in s" on strings
Contains(s, q) ==
    \E k \in 0..(Len(s) - Len(q)) : SubSeq(s, k + 1, k + Len(q)) = q

\* the first position of a non-empty set of positions
First(S) == CHOOSE m \in S : \A y \in S : m <= y

\* the list comprehension of search_tasks for the lowered query q, looked
\* for in the fields named: validate_task runs on every task, in place; an
\* exception of validate_task ends the call at that task
SearchLoop(ts, q, c, fields) ==
    LET v   == [i \in 1..Len(ts) |-> validate_task(Dict(ts[i]), c)]
        bad == {i \in 1..Len(ts) : v[i].exc # ""}
    IN  IF bad = {}
        THEN [exc   |-> "",
              pos   |-> SelectSeq(Positions(ts),
                           LAMBDA i :
                               /\ v[i].val
                               /\ \E k \in fields :
                                     Contains(Lower(v[i].arg.v[k].v), q)),
              after |-> [i \in 1..Len(ts) |-> v[i].arg.v]]
        ELSE [exc   |-> v[First(bad)].exc,
              pos   |-> << >>,
              after |-> [i \in 1..Len(ts) |->
                            IF i <= First(bad) THEN v[i].arg.v ELSE ts[i]]]

\* mutant of search_tasks: only the title is searched
search_tasks_title_only(ts, query, c) ==
    IF ~Truthy(query) THEN [exc |-> "", pos |-> << >>, after |-> ts]
    ELSE SearchLoop(ts, Lower(query.v), c, {"title"})

\* mutant of search_tasks: no "if not query" guard
search_tasks_unguarded(ts, query, c) ==
    IF query = PyNone
    THEN [exc |-> "AttributeError", pos |-> << >>, after |-> ts]
    ELSE SearchLoop(ts, Lower(query.v), c, {"title", "description"})

\* search_tasks(tasks, query) at clock c: what it raised (exc), the
\* positions of the tasks it returned (pos) and the list as it left it
\* (after)
search_tasks(ts, query, c) ==
    IF ~Truthy(query) THEN [exc |-> "", pos |-> << >>, after |-> ts]
    ELSE SearchLoop(ts, Lower(query.v), c, {"title", "description"})

\* "not task.get("completed", False)"
Incomplete(t) == ~Truthy(Get(t, "completed", PyBool(FALSE)))

\* the loop body of get_overdue_tasks raises on t: the explicit ValueError
\* for a missing due_date, or strptime's
RaisesOnDueDate(t) ==
    Incomplete(t) /\ ("due_date" \notin DOMAIN t \/ ~DateParses(t["due_date"].v))

\* mutant of get_overdue_tasks: a task due today is overdue
get_overdue_tasks_today(ts, c) ==
    IF \E i \in 1..Len(ts) : RaisesOnDueDate(ts[i])
    THEN [exc |-> "ValueError", pos |-> << >>]
    ELSE [exc |-> "",
          pos |-> SelectSeq(Positions(ts),
                     LAMBDA i : /\ Incomplete(ts[i])
                                /\ ~DateLess(Today(c), ts[i]["due_date"].v))]

\* mutant of get_overdue_tasks: a task whose due_date is missing or does
\* not parse is skipped
get_overdue_tasks_lenient(ts, c) ==
    [exc |-> "",
     pos |-> SelectSeq(Positions(ts),
                LAMBDA i : /\ Incomplete(ts[i])
                           /\ ~RaisesOnDueDate(ts[i])
                           /\ DateLess(ts[i]["due_date"].v, Today(c)))]

\* mutant of get_overdue_tasks: completed tasks are looked at too
get_overdue_tasks_any(ts, c) ==
    IF \E i \in 1..Len(ts) :
          "due_date" \notin DOMAIN ts[i] \/ ~DateParses(ts[i]["due_date"].v)
    THEN [exc |-> "ValueError", pos |-> << >>]
    ELSE [exc |-> "",
          pos |-> SelectSeq(Positions(ts),
                     LAMBDA i : DateLess(ts[i]["due_date"].v, Today(c)))]

\* get_overdue_tasks(tasks) at clock c
get_overdue_tasks(ts, c) ==
    IF \E i \in 1..Len(ts) : RaisesOnDueDate(ts[i])
    THEN [exc |-> "ValueError", pos |-> << >>]
    ELSE [exc |-> "",
          pos |-> SelectSeq(Positions(ts),
                     LAMBDA i : /\ Incomplete(ts[i])
                                /\ DateLess(ts[i]["due_date"].v, Today(c)))]

---------------------------------------------------------------------------
(* The query functions applied to collections *)

\* a record with all eight properties
QTask(title, description, priority, category, due, done) ==
    [id          |-> PyInt(1),
     title       |-> PyStr(title),
     description |-> PyStr(description),
     priority    |-> PyStr(priority),
     category    |-> PyStr(category),
     due_date    |-> PyStr(due),
     completed   |-> PyBool(done),
     created_at  |-> PyStr(NowText(0))]

\* the tasks of the collections queried: completed and incomplete records
\* and one without a completed field,
\* due before, on or after the days of the clock; due dates that are
\* missing or do not parse; an empty title; a record holding only its
\* title; the priority and category "NonExistent"
QueryFamily ==
    {Without(QTask(<<"A", "b">>, <<"d">>, "High", "Work", <<2024, 2, 27>>,
                   FALSE), {"completed"}),
     QTask(<<"c">>, <<"B", "c">>, "Low", "NonExistent", <<2024, 2, 29>>, FALSE),
     QTask(<<"A", "b">>, << >>, "NonExistent", "Work", <<2024, 2, 27>>, TRUE),
     Without(QTask(<<"c">>, <<"d">>, "High", "Work", << >>, TRUE), {"due_date"}),
     QTask(<<"c">>, <<"d">>, "High", "Work", <<31, 12, 2024>>, FALSE),
     [title |-> PyStr(<<"A", "b">>)],
     QTask(<< >>, <<"A", "b">>, "Bogus", "Work", <<31, 12, 2024>>, TRUE)}

PriorityQueries == {PyStr("High"), PyStr("Low"), PyStr("NonExistent")}

CategoryQueries == {PyStr("Work"), PyStr("NonExistent")}

SearchQueries ==
    {PyNone, PyStr(<< >>), PyStr(<<"a", "B">>), PyStr(<<"b", "c">>)}

InitQuery ==
    /\ tasks \in Collections(QueryFamily)
    /\ clock \in 0..MaxClock
    /\ ret = NoCall
    /\ fs = [p \in {} |-> PyNone]
    /\ mem = << >>
    /\ phase = << >>
    /\ editing_task = PyNone

\* what a query call leaves in ret: the list as it was given (arg), the
\* query value (q), what was raised (exc), the positions returned (pos) and
\* the tasks returned (val)
Called(fn, q, exc, pos, after) ==
    [fn |-> fn, arg |-> tasks, q |-> q, exc |-> exc, pos |-> pos,
     val |-> Pick(after, pos)]

FilterByPriority ==
    \E p \in PriorityQueries :
        /\ ret' = Called("filter_tasks_by_priority", p, "",
                         filter_tasks_by_priority(tasks, p), tasks)
        /\ UNCHANGED <<tasks, clock, fs, mem, phase, editing_task>>

FilterByCategory ==
    \E cat \in CategoryQueries :
        /\ ret' = Called("filter_tasks_by_category", cat, "",
                         filter_tasks_by_category(tasks, cat), tasks)
        /\ UNCHANGED <<tasks, clock, fs, mem, phase, editing_task>>

FilterByCompletion ==
    \E done \in BOOLEAN :
        /\ ret' = Called("filter_tasks_by_completion", PyBool(done), "",
                         filter_tasks_by_completion(tasks, PyBool(done)), tasks)
        /\ UNCHANGED <<tasks, clock, fs, mem, phase, editing_task>>

\* search_tasks validates, and so changes, the tasks of the list it is given
SearchTasks ==
    \E query \in SearchQueries :
        LET r == search_tasks(tasks, query, clock)
        IN  /\ ret' = Called("search_tasks", query, r.exc, r.pos, r.after)
            /\ tasks' = r.after
            /\ UNCHANGED <<clock, fs, mem, phase, editing_task>>

GetOverdueTasks ==
    LET r == get_overdue_tasks(tasks, clock)
    IN  /\ ret' = Called("get_overdue_tasks", PyNone, r.exc, r.pos, tasks)
        /\ UNCHANGED <<tasks, clock, fs, mem, phase, editing_task>>

NextQuery ==
    \/ FilterByPriority
    \/ FilterByCategory
    \/ FilterByCompletion
    \/ SearchTasks
    \/ GetOverdueTasks

SpecQuery == InitQuery /\ [][NextQuery]_vars

---------------------------------------------------------------------------
(* Sessions over the task file: each holds a collection in memory, loads   *)
(* it with load_tasks, changes it and writes it back with save_tasks.      *)

\* the records the sessions add: a complete one with the id still None, as
\* create_task leaves it, and one as the tests save them, with an id and
\* without description, category, priority and created_at
StoreTasks ==
    {FullTask(PyNone, <<"A", "b">>, "High", <<2024, 2, 27>>, FALSE),
     [id |-> PyInt(2), title |-> PyStr(<<"c">>), completed |-> PyBool(TRUE),
      due_date |-> PyStr(<<2024, 3, 1>>)]}

\* content that is not well-formed JSON: a text of words, and bytes that
\* are not UTF-8
MalformedContents ==
    {<<TokV("word", "invalid")>>, <<Tok("["), TokV("byte", 255)>>}

InitFiles == [p \in Paths |-> NoFile]

\* tasks = load_tasks(path); an exception leaves the collection as it was
LoadTasks(s, path) ==
    LET r == load_tasks(path, fs)
    IN  /\ mem' = IF r.exc = "" THEN [mem EXCEPT ![s] = TasksOf(r.val)]
                  ELSE mem
        /\ ret' = [fn |-> "load_tasks", s |-> s, path |-> path, exc |-> r.exc,
                   val |-> r.val]
        /\ UNCHANGED <<tasks, clock, fs, editing_task>>

\* the session appends a task to its collection
AppendTask(s) ==
    /\ Len(mem[s]) < MaxTasks
    /\ \E t \in StoreTasks : mem' = [mem EXCEPT ![s] = Append(@, t)]
    /\ ret' = [fn |-> "append", s |-> s]
    /\ UNCHANGED <<tasks, clock, fs, editing_task>>

\* the session removes its i-th task
RemoveTask(s) ==
    /\ \E i \in 1..Len(mem[s]) :
          mem' = [mem EXCEPT
                    ![s] = SubSeq(@, 1, i - 1) \o SubSeq(@, i + 1, Len(@))]
    /\ ret' = [fn |-> "remove", s |-> s]
    /\ UNCHANGED <<tasks, clock, fs, editing_task>>

\* save_tasks(tasks, path), of which the system accepts `accepted` chunks
SaveStep(s, path, accepted) ==
    LET r == save_tasks(mem[s], path, fs, accepted)
    IN  /\ fs' = r.fs
        /\ ret' = [fn |-> "save_tasks", s |-> s, path |-> path, exc |-> r.exc]
        /\ UNCHANGED <<tasks, clock, mem, editing_task>>

\* save_tasks where a write may fail at any chunk (disk full, interruption);
\* nothing is written to a file that could not be opened
SaveTasks(s, path) ==
    \E accepted \in IF Writable(path)
                    THEN 0..Len(JsonDumps(ListOf(mem[s])))
                    ELSE {0} :
        SaveStep(s, path, accepted)

\* save_tasks where every write succeeds
SaveTasksNoFault(s, path) ==
    SaveStep(s, path, Len(JsonDumps(ListOf(mem[s]))))

\* something else overwrites the task file with malformed content
CorruptFile ==
    /\ \E data \in MalformedContents :
          fs' = [fs EXCEPT ![TASKS_FILE] = File(data)]
    /\ ret' = [fn |-> "corrupt"]
    /\ UNCHANGED <<tasks, clock, mem, editing_task>>

NoHistory == [s \in {} |-> PyNone]

\* one session, a file system that can fail, a file that can be corrupted
InitStore ==
    /\ fs = InitFiles
    /\ mem = [s \in {1} |-> << >>]
    /\ phase = NoHistory
    /\ ret = NoCall
    /\ tasks = << >>
    /\ clock = 0
    /\ editing_task = PyNone

NextStore ==
    \/ UNCHANGED phase /\ \E path \in Paths : LoadTasks(1, path)
    \/ UNCHANGED phase /\ AppendTask(1)
    \/ UNCHANGED phase /\ RemoveTask(1)
    \/ UNCHANGED phase /\ \E path \in Paths : SaveTasks(1, path)
    \/ UNCHANGED phase /\ CorruptFile

SpecStore == InitStore /\ [][NextStore]_vars

\* Two sessions over the same task file, which holds some collection, on a
\* file system that does not fail.  Each session loads once, changes its
\* collection and saves; phase records how far it is and what it loaded.
Sessions == {1, 2}

InitRace ==
    /\ \E c \in Collections(StoreTasks) :
          fs = [InitFiles EXCEPT ![TASKS_FILE] = File(JsonDumps(ListOf(c)))]
    /\ mem = [s \in Sessions |-> << >>]
    /\ phase = [s \in Sessions |-> [pc |-> "start", base |-> << >>]]
    /\ ret = NoCall
    /\ tasks = << >>
    /\ clock = 0
    /\ editing_task = PyNone

NextRace ==
    \E s \in Sessions :
        \/ /\ phase[s].pc = "start"
           /\ LoadTasks(s, TASKS_FILE)
           /\ phase' = [phase EXCEPT ![s] = [pc |-> "loaded", base |-> mem'[s]]]
        \/ /\ phase[s].pc \in {"loaded", "changed"}
           /\ AppendTask(s)
           /\ phase' = [phase EXCEPT ![s].pc = "changed"]
        \/ /\ phase[s].pc \in {"loaded", "changed"}
           /\ RemoveTask(s)
           /\ phase' = [phase EXCEPT ![s].pc = "changed"]
        \/ /\ phase[s].pc = "changed"
           /\ SaveTasksNoFault(s, TASKS_FILE)
           /\ phase' = [phase EXCEPT ![s].pc = "saved"]

SpecRace == InitRace /\ [][NextRace]_vars

---------------------------------------------------------------------------
(* The life of the records of a collection held by a caller of tasks.py:   *)
(* they are validated, searched, marked completed and written to the task  *)
(* file and read back.                                                     *)

\* the records of the collections followed: some properties missing,
\* created_at present; all eight properties, with a due date that does not
\* parse; no created_at
LifeFamily ==
    {Without(QTask(<<"c">>, <<"d">>, "Bogus", "Work", << >>, TRUE),
             {"due_date", "completed"}),
     QTask(<<"c">>, <<"d">>, "High", "Work", <<31, 12, 2024>>, FALSE),
     [title |-> PyStr(<<"A", "b">>)]}

\* the records were created at clock 0; the operations run later
InitLife ==
    /\ tasks \in Collections(LifeFamily)
    /\ clock = MaxClock
    /\ ret = NoCall
    /\ fs = InitFiles
    /\ mem = << >>
    /\ phase = << >>
    /\ editing_task = PyNone

\* context["tasks"][0]["completed"] = True
MarkCompleted ==
    /\ Len(tasks) > 0
    /\ tasks' = [tasks EXCEPT ![1] = SetItem(@, "completed", PyBool(TRUE))]
    /\ ret' = [fn |-> "mark_completed", arg |-> tasks]
    /\ UNCHANGED <<clock, fs, mem, phase, editing_task>>

\* save_tasks(tasks) followed by tasks = load_tasks()
SaveThenLoad ==
    LET saved  == save_tasks(tasks, TASKS_FILE, fs,
                             Len(JsonDumps(ListOf(tasks))))
        loaded == load_tasks(TASKS_FILE, saved.fs)
    IN  /\ fs' = saved.fs
        /\ tasks' = IF loaded.exc = "" THEN TasksOf(loaded.val) ELSE tasks
        /\ ret' = [fn |-> "save_then_load", arg |-> tasks,
                   exc |-> IF saved.exc # "" THEN saved.exc ELSE loaded.exc]
        /\ UNCHANGED <<clock, mem, phase, editing_task>>

NextLife == ValidateTask \/ SearchTasks \/ MarkCompleted \/ SaveThenLoad

SpecLife == InitLife /\ [][NextLife]_vars

---------------------------------------------------------------------------
(* app.py: the UI session.  Every interaction reruns main() over            *)
(* st.session_state.  The displayed list holds the very dict objects of     *)
(* the session's list, so a displayed task is named by its position in the  *)
(* session's list.  editing_task refers to a dict object: PyNone when the   *)
(* key is not in the session state, else [ty |-> "ref", at, v] with at the  *)
(* object's position in the session's list (0 once it is no longer in it)   *)
(* and v its value.                                                         *)

\* list.index(x): the first position whose element equals x, 0 when none
IndexOf(ts, x) ==
    IF \E j \in 1..Len(ts) : ts[j] = x
    THEN CHOOSE j \in 1..Len(ts) :
            ts[j] = x /\ \A h \in 1..(j - 1) : ts[h] # x
    ELSE 0

\* the list without its r-th element
RemoveAt(ts, r) == SubSeq(ts, 1, r - 1) \o SubSeq(ts, r + 1, Len(ts))

\* filter_tasks(tasks, show_completed, category, priority): the positions
\* of the tasks it returns (pos), and whether the list it returns is the
\* session's list itself and not a new one (same)
filter_tasks(ts, show_completed, category, priority) ==
    LET all == [i \in 1..Len(ts) |-> i]
        byCategory == Truthy(category) /\ category # PyStr("All")
        byPriority == Truthy(priority) /\ priority # PyStr("All")
        f1 == IF ~show_completed
              THEN SelectSeq(all, LAMBDA i :
                      ~Truthy(Get(ts[i], "completed", PyBool(FALSE))))
              ELSE all
        f2 == IF byCategory
              THEN SelectSeq(f1, LAMBDA i : Get(ts[i], "category", PyNone) = category)
              ELSE f1
        f3 == IF byPriority
              THEN SelectSeq(f2, LAMBDA i : Get(ts[i], "priority", PyNone) = priority)
              ELSE f2
    IN  [pos |-> f3, same |-> show_completed /\ ~byCategory /\ ~byPriority]

\* the values of the filter widgets of main(): "All" is passed on as None
CategoryFilters ==
    {PyNone} \cup {PyStr(c) : c \in {"Work", "Personal", "School", "Other"}}

PriorityFilters == {PyNone} \cup {PyStr(q) : q \in PRIORITIES}

\* what the user can put into the form: title, description, category,
\* priority, due date (a date picker: always a date)
FormInputs ==
    {[title |-> << >>, description |-> << >>, category |-> "Work",
      priority |-> "High", due_date |-> <<2024, 2, 28>>],
     [title |-> <<"A", "b">>, description |-> << >>, category |-> "Work",
      priority |-> "High", due_date |-> <<2024, 2, 27>>],
     [title |-> <<"c">>, description |-> <<"d">>, category |-> "Personal",
      priority |-> "Low", due_date |-> <<2024, 3, 1>>]}

\* mutant of task_creation_form: "if submitted", whatever the title
task_creation_form_untitled(form) ==
    Dict([title       |-> PyStr(form.title),
          description |-> PyStr(form.description),
          category    |-> PyStr(form.category),
          priority    |-> PyStr(form.priority),
          due_date    |-> PyStr(FormatDate(form.due_date)),
          completed   |-> PyBool(FALSE)])

\* task_creation_form(): the dict it returns on "submitted and title",
\* None otherwise
task_creation_form(form) ==
    IF ~Truthy(PyStr(form.title)) THEN PyNone
    ELSE Dict([title       |-> PyStr(form.title),
               description |-> PyStr(form.description),
               category    |-> PyStr(form.category),
               priority    |-> PyStr(form.priority),
               due_date    |-> PyStr(FormatDate(form.due_date)),
               completed   |-> PyBool(FALSE)])

\* main(): "if "tasks" not in st.session_state: st.session_state.tasks = []"
InitApp ==
    /\ tasks = << >>
    /\ editing_task = PyNone
    /\ ret = NoCall
    /\ fs = InitFiles
    /\ clock = 0
    /\ mem = << >>
    /\ phase = << >>

\* the user submits the form: main() replaces the task being edited, or
\* appends the new task; without a title nothing happens
Submit ==
    \E form \in FormInputs :
        LET task == task_creation_form(form)
            index == IndexOf(tasks, editing_task.v)
        IN  /\ task # PyNone => editing_task # PyNone \/ Len(tasks) < MaxTasks
            /\ IF task = PyNone
               THEN /\ ret' = [fn |-> "submit", title |-> form.title,
                               exc |-> "", added |-> FALSE]
                    /\ UNCHANGED <<tasks, editing_task>>
               ELSE IF editing_task # PyNone
                    THEN IF index = 0
                         THEN /\ ret' = [fn |-> "submit", title |-> form.title,
                                         exc |-> "ValueError", added |-> FALSE]
                              /\ UNCHANGED <<tasks, editing_task>>
                         ELSE /\ tasks' = [tasks EXCEPT ![index] = task.v]
                              /\ editing_task' = PyNone
                              /\ ret' = [fn |-> "submit", title |-> form.title,
                                         exc |-> "", added |-> FALSE]
                    ELSE /\ tasks' = Append(tasks, task.v)
                         /\ ret' = [fn |-> "submit", title |-> form.title,
                                    exc |-> "", added |-> TRUE]
                         /\ UNCHANGED editing_task
            /\ UNCHANGED <<clock, fs, mem, phase>>

\* the user ticks or unticks the checkbox of the i-th displayed task:
\* display_tasks_with_colors sets completed on the dict itself
ToggleCompleted ==
    \E show \in BOOLEAN, category \in CategoryFilters, priority \in PriorityFilters :
        LET shown == filter_tasks(tasks, show, category, priority)
        IN  \E i \in 1..Len(shown.pos) :
                LET k == shown.pos[i]
                    task == SetItem(tasks[k], "completed",
                                PyBool(~Get(tasks[k], "completed", PyBool(FALSE)).v))
                IN  /\ tasks' = [tasks EXCEPT ![k] = task]
                    /\ editing_task' =
                          IF editing_task # PyNone /\ editing_task.at = k
                          THEN [editing_task EXCEPT !.v = task]
                          ELSE editing_task
                    /\ ret' = [fn |-> "toggle", exc |-> ""]
                    /\ UNCHANGED <<clock, fs, mem, phase>>

\* the user presses Edit on the i-th displayed task
Edit ==
    \E show \in BOOLEAN, category \in CategoryFilters, priority \in PriorityFilters :
        LET shown == filter_tasks(tasks, show, category, priority)
        IN  \E i \in 1..Len(shown.pos) :
                /\ editing_task' = [ty |-> "ref", at |-> shown.pos[i],
                                    v |-> tasks[shown.pos[i]]]
                /\ ret' = [fn |-> "edit", exc |-> ""]
                /\ UNCHANGED <<tasks, clock, fs, mem, phase>>

\* the user presses Delete on the i-th displayed task: tasks.remove(task)
\* on the displayed list removes its first element equal to the task, from
\* the session's list only when the displayed list is that list
Delete ==
    \E show \in BOOLEAN, category \in CategoryFilters, priority \in PriorityFilters :
        LET shown == filter_tasks(tasks, show, category, priority)
        IN  \E i \in 1..Len(shown.pos) :
                LET r == IndexOf(tasks, tasks[shown.pos[i]])
                IN  /\ IF shown.same
                       THEN /\ tasks' = RemoveAt(tasks, r)
                            /\ editing_task' =
                                  IF editing_task = PyNone THEN PyNone
                                  ELSE IF editing_task.at = r
                                       THEN [editing_task EXCEPT !.at = 0]
                                  ELSE IF editing_task.at > r
                                       THEN [editing_task EXCEPT !.at = @ - 1]
                                  ELSE editing_task
                       ELSE UNCHANGED <<tasks, editing_task>>
                    /\ ret' = [fn |-> "delete", exc |-> "",
                               removed |-> shown.same]
                    /\ UNCHANGED <<clock, fs, mem, phase>>

NextApp == Submit \/ ToggleCompleted \/ Edit \/ Delete

SpecApp == InitApp /\ [][NextApp]_vars

---------------------------------------------------------------------------
(* Insertions into a collection: by a caller of create_task, and by the    *)
(* form of the UI.                                                         *)

\* a caller adds a task built by create_task and saves the collection; when
\* create_task raises, nothing is appended
AddNewTask ==
    \E title \in CreateTitles :
        LET r == create_task(PyStr(title), PyStr(<<"d">>), PyStr("Medium"),
                             PyStr("Work"), PyStr(TodayText(clock)), clock)
            added == Append(tasks, r.val.v)
            saved == save_tasks(added, TASKS_FILE, fs,
                                Len(JsonDumps(ListOf(added))))
        IN  /\ Len(tasks) < MaxTasks
            /\ IF r.exc # ""
               THEN /\ ret' = [fn |-> "add_new_task", title |-> title,
                               exc |-> r.exc, added |-> FALSE]
                    /\ UNCHANGED <<tasks, fs>>
               ELSE /\ tasks' = added
                    /\ fs' = saved.fs
                    /\ ret' = [fn |-> "add_new_task", title |-> title,
                               exc |-> saved.exc, added |-> TRUE]
            /\ UNCHANGED <<clock, mem, phase, editing_task>>

NextInsert == AddNewTask \/ Submit \/ Edit

SpecInsert == InitApp /\ [][NextInsert]_vars

---------------------------------------------------------------------------
(* Insertions that assign ids, and deletions.  mem is the set of the ids   *)
(* assigned so far.                                                        *)

InitIds ==
    /\ tasks = << >>
    /\ mem = {}
    /\ ret = NoCall
    /\ clock = 0
    /\ fs = InitFiles
    /\ phase = << >>
    /\ editing_task = PyNone

InsertTitles == {<<"A", "b">>, <<"c">>}

\* a task built by create_task is inserted with the id
\* generate_unique_id(tasks); ret tells whether that id had been assigned
\* before
InsertTask ==
    \E title \in InsertTitles, priority \in PRIORITIES :
        LET r  == create_task(PyStr(title), PyStr(<<"d">>), PyStr(priority),
                              PyStr("Work"), PyStr(TodayText(clock)), clock)
            id == generate_unique_id(tasks)
        IN  /\ Len(tasks) < MaxTasks
            /\ r.exc = "" /\ id.exc = ""
            /\ id.val <= MaxId
            /\ tasks' = Append(tasks, SetItem(r.val.v, "id", PyInt(id.val)))
            /\ mem' = mem \cup {id.val}
            /\ ret' = [fn |-> "insert", arg |-> tasks, id |-> id.val,
                       reused |-> id.val \in mem]
            /\ UNCHANGED <<clock, fs, phase, editing_task>>

\* a task is deleted: tasks.remove(task)
DeleteTask ==
    \E i \in 1..Len(tasks) :
        /\ tasks' = RemoveAt(tasks, IndexOf(tasks, tasks[i]))
        /\ ret' = [fn |-> "delete", arg |-> tasks]
        /\ UNCHANGED <<clock, fs, mem, phase, editing_task>>

NextIds == InsertTask \/ DeleteTask

SpecIds == InitIds /\ [][NextIds]_vars

---------------------------------------------------------------------------
(* Claims about the task functions (SpecFn) *)

\* the integer ids held by the tasks of a collection
IntIds(ts) ==
    {ts[i]["id"].v : i \in {j \in 1..Len(ts) :
        "id" \in DOMAIN ts[j] /\ ts[j]["id"].ty = "int"}}

\* C1: generate_unique_id returns 1 for an empty collection, and for every
\* non-empty collection it returns a value strictly greater than the id of
\* every task in that collection.
C1_UniqueIdAboveAll ==
    ret.fn = "generate_unique_id" =>
        /\ ret.exc = ""
        /\ Len(ret.arg) = 0 => ret.val = 1
        /\ \A n \in IntIds(ret.arg) : ret.val > n

\* C9: validate returns false for any input that is not a mapping; for a
\* mapping it returns false exactly when the title is empty after missing
\* fields have been default-filled, and true otherwise.
C9_ValidateResult ==
    ret.fn = "validate_task" =>
        /\ ret.exc = ""
        /\ ret.arg.ty # "dict" => ret.val = FALSE
        /\ ret.arg.ty = "dict" =>
              (ret.val = FALSE <=>
                  \/ "title" \notin DOMAIN ret.arg.v
                  \/ Len(ret.arg.v["title"].v) = 0)

\* C9 witness: a mapping without a title was validated and rejected
C9_Witness ==
    /\ ret.fn = "validate_task"
    /\ ret.arg.ty = "dict"
    /\ "title" \notin DOMAIN ret.arg.v
    /\ "priority" \in DOMAIN ret.arg.v
    /\ ret.val = FALSE

\* the priority and due_date validate_task is to leave in a dict d
CoercedPriority(d) ==
    IF "priority" \in DOMAIN d /\ d["priority"].v \in {"High", "Medium", "Low"}
    THEN d["priority"].v ELSE "Low"

CoercedDueDate(d, c) ==
    IF "due_date" \in DOMAIN d /\ DateParses(d["due_date"].v)
    THEN d["due_date"].v ELSE FormatDate(Today(c))

\* C10 as stated: after validate on a mapping, the task's priority is one
\* of High, Medium, Low and its due_date parses as YYYY-MM-DD.
C10_Original ==
    (ret.fn = "validate_task" /\ ret.arg.ty = "dict") =>
        /\ tasks[ret.i]["priority"].v \in {"High", "Medium", "Low"}
        /\ DateParses(tasks[ret.i]["due_date"].v)

\* C10 amended: after validate has returned true on a mapping, the task
\* (mutated in place) has its priority among High, Medium, Low, any other
\* value replaced by Low, and a due_date that parses as YYYY-MM-DD, an
\* unparsable value replaced by the current date.
C10_CoercedWhenValid ==
    (ret.fn = "validate_task" /\ ret.arg.ty = "dict" /\ ret.val = TRUE) =>
        /\ tasks[ret.i] = ret.after.v
        /\ tasks[ret.i]["priority"].v \in {"High", "Medium", "Low"}
        /\ tasks[ret.i]["priority"].v = CoercedPriority(ret.arg.v)
        /\ DateParses(tasks[ret.i]["due_date"].v)
        /\ tasks[ret.i]["due_date"].v = CoercedDueDate(ret.arg.v, clock)

\* C10 witness: a task with an invalid priority and an unparsable due_date
\* was validated, accepted and coerced
C10_Witness ==
    /\ ret.fn = "validate_task"
    /\ ret.arg.ty = "dict"
    /\ ret.val = TRUE
    /\ "priority" \in DOMAIN ret.arg.v
    /\ "due_date" \in DOMAIN ret.arg.v
    /\ ret.arg.v["priority"].v = "Bogus"
    /\ ~DateParses(ret.arg.v["due_date"].v)
    /\ tasks[ret.i]["priority"].v = "Low"
    /\ tasks[ret.i]["due_date"].v = FormatDate(Today(clock))

\* the default the specification gives for a required field k, at clock c
HardCodedDefault(k, c) ==
    CASE k = "id"          -> PyNone
      [] k = "title"       -> PyStr(<< >>)
      [] k = "description" -> PyStr(<< >>)
      [] k = "priority"    -> PyStr("Low")
      [] k = "category"    -> PyStr("Other")
      [] k = "due_date"    -> PyStr(FormatDate(Today(c)))
      [] k = "completed"   -> PyBool(FALSE)
      [] k = "created_at"  -> PyStr(FormatDate(Today(c)) \o <<0, 0, 0>>)

\* C11: validate on a mapping adds each of the eight required fields that is
\* missing with its hard-coded default and leaves the value of every field
\* that was already present unchanged, apart from the coercion of an invalid
\* priority or due_date.
C11_DefaultsFilledOthersKept ==
    (ret.fn = "validate_task" /\ ret.arg.ty = "dict") =>
        LET before == ret.arg.v
            after  == tasks[ret.i]
            eight  == {"id", "title", "description", "priority", "category",
                       "due_date", "completed", "created_at"}
        IN  /\ DOMAIN after = DOMAIN before \cup eight
            /\ \A k \in eight \ DOMAIN before :
                  after[k] = HardCodedDefault(k, clock)
            /\ \A k \in DOMAIN before :
                  \/ after[k] = before[k]
                  \/ /\ k = "priority"
                     /\ before[k].v \notin {"High", "Medium", "Low"}
                     /\ after[k] = PyStr("Low")
                  \/ /\ k = "due_date"
                     /\ ~DateParses(before[k].v)
                     /\ after[k] = PyStr(FormatDate(Today(clock)))

\* C11 witness: a mapping holding only a title was validated: the seven
\* other fields were added and the title kept
C11_Witness ==
    /\ ret.fn = "validate_task"
    /\ ret.arg.ty = "dict"
    /\ DOMAIN ret.arg.v = {"title"}
    /\ Len(ret.arg.v["title"].v) > 0
    /\ Cardinality(DOMAIN tasks[ret.i]) = 8
    /\ tasks[ret.i]["title"] = ret.arg.v["title"]
    /\ tasks[ret.i]["priority"] = PyStr("Low")
    /\ tasks[ret.i]["category"] = PyStr("Other")

\* C12: create called with an empty title fails with a validation error and
\* produces no task, whatever the other arguments are.
C12_EmptyTitleRejected ==
    (ret.fn = "create_task" /\ Len(ret.title) = 0) =>
        (ret.exc = "ValueError" /\ ret.val = PyNone)

\* C12 witness: create was called with an empty title and otherwise valid
\* arguments, and raised
C12_Witness ==
    /\ ret.fn = "create_task"
    /\ Len(ret.title) = 0
    /\ ret.priority = "High"
    /\ DateParses(ret.due_date)
    /\ ret.exc = "ValueError"

\* C13: create with a non-empty title returns a task whose title is the
\* given title, whose priority is the given priority if it is High, Medium
\* or Low and Low otherwise, whose due_date is the given date if it parses as
\* YYYY-MM-DD and the current date otherwise, whose id is null and whose
\* completed is false.
C13_CreateResult ==
    (ret.fn = "create_task" /\ Len(ret.title) > 0) =>
        /\ ret.exc = ""
        /\ ret.val.ty = "dict"
        /\ ret.val.v["title"] = PyStr(ret.title)
        /\ ret.val.v["priority"] =
              IF ret.priority \in {"High", "Medium", "Low"}
              THEN PyStr(ret.priority) ELSE PyStr("Low")
        /\ ret.val.v["due_date"] =
              IF DateParses(ret.due_date)
              THEN PyStr(ret.due_date) ELSE PyStr(FormatDate(Today(ret.at)))
        /\ ret.val.v["id"] = PyNone
        /\ ret.val.v["completed"] = PyBool(FALSE)

\* C13 witness: create("Ab", "", "Bogus", "", "31-12-2024") returned a task
\* with priority Low and the current date
C13_Witness ==
    /\ ret.fn = "create_task"
    /\ ret.title = <<"A", "b">>
    /\ ret.priority = "Bogus"
    /\ ret.due_date = <<31, 12, 2024>>
    /\ ret.exc = ""
    /\ ret.val.v["priority"] = PyStr("Low")
    /\ ret.val.v["due_date"] = PyStr(FormatDate(Today(ret.at)))
    /\ ret.val.v["id"] = PyNone

---------------------------------------------------------------------------
(* Claims about load_tasks and save_tasks (SpecStore, SpecRace) *)

\* C3: save(tasks, path) followed by load(path) returns a collection equal
\* to tasks (same records, same field values, same order).
C3_SaveLoadRoundTrip ==
    (ret.fn = "save_tasks" /\ ret.exc = "") =>
        load_tasks(ret.path, fs) = [exc |-> "", val |-> ListOf(mem[ret.s])]

\* C3 witness: two different records were saved and load returns them
C3_Witness ==
    /\ ret.fn = "save_tasks"
    /\ ret.exc = ""
    /\ Len(mem[ret.s]) = 2
    /\ mem[ret.s][1] # mem[ret.s][2]
    /\ "id" \in DOMAIN mem[ret.s][1]
    /\ mem[ret.s][1]["id"] = PyNone
    /\ TasksOf(load_tasks(ret.path, fs).val) = mem[ret.s]

\* the file is missing, or its content is not well-formed JSON text
Malformed(f) ==
    \/ ~f.exists
    \/ ~Decodes(f.data)
    \/ JsonLoads(f.data).exc # ""

\* C4: load on a path where no file exists, or on a file whose content is
\* not well-formed structured data, returns an empty sequence and never
\* raises.
C4_LoadNeverRaises ==
    (ret.fn = "load_tasks" /\ Malformed(fs[ret.path])) =>
        (ret.exc = "" /\ ret.val = List(<< >>))

\* C5: after any save attempt, successful or failed, the file at the path
\* holds either the complete new collection or the complete previous
\* content, never a partially written collection.
C5_SaveAtomic ==
    [][ret'.fn = "save_tasks" =>
          \/ fs'[ret'.path] = fs[ret'.path]
          \/ fs'[ret'.path] = File(JsonDumps(ListOf(mem[ret'.s])))]_vars

\* C6: save to a location that is not writable fails with an I/O error that
\* propagates to the caller; no success is reported and no file appears.
C6_UnwritableSaveRaises ==
    (ret.fn = "save_tasks" /\ ~Writable(ret.path)) =>
        (ret.exc = "OSError" /\ ~fs[ret.path].exists)

\* C6 witness: a non-empty collection was saved to the read-only location
C6_Witness ==
    /\ ret.fn = "save_tasks"
    /\ ret.path = READONLY_FILE
    /\ Len(mem[ret.s]) > 0
    /\ ret.exc = "OSError"

\* C8: when two sessions each load the same file, each changes its own
\* collection and each saves, the file ends up holding exactly the
\* collection of the session that saved last; the other session's changes
\* are absent from the file and neither save reports an error.
C8_LastWriterWins ==
    ret.fn = "save_tasks" =>
        /\ ret.exc = ""
        /\ fs[TASKS_FILE] = File(JsonDumps(ListOf(mem[ret.s])))
        /\ \A o \in Sessions :
              mem[o] # mem[ret.s] =>
                  load_tasks(TASKS_FILE, fs).val # ListOf(mem[o])

\* C8 witness: both sessions loaded the same collection, each changed it
\* differently, both saved, session 2 last: the file holds session 2's
\* collection
C8_Witness ==
    /\ phase[1].pc = "saved"
    /\ phase[2].pc = "saved"
    /\ phase[1].base = phase[2].base
    /\ mem[1] # phase[1].base
    /\ mem[2] # phase[2].base
    /\ mem[1] # mem[2]
    /\ ret.fn = "save_tasks"
    /\ ret.s = 2
    /\ TasksOf(load_tasks(TASKS_FILE, fs).val) = mem[2]

---------------------------------------------------------------------------
(* Claims about the UI session (SpecApp) *)

\* task.get("id")
IdOf(t) == Get(t, "id", PyNone)

\* C2: in every reachable state of a session no two tasks in the collection
\* have the same id.
C2_UniqueIds ==
    \A i, j \in 1..Len(tasks) : i # j => IdOf(tasks[i]) # IdOf(tasks[j])

\* C7: after every mutation of the collection the whole collection is
\* rewritten to the persisted file, so that between operations the file's
\* content equals the in-memory collection.
C7_FileMirrorsCollection ==
    load_tasks(TASKS_FILE, fs) = [exc |-> "", val |-> ListOf(tasks)]

\* C14: every task in the collection has a positive integer id: a task
\* built by create (id null) receives its real id when it is inserted, so no
\* task with a null or missing id is ever held in the collection.
C14_PositiveIds ==
    \A i \in 1..Len(tasks) :
        /\ "id" \in DOMAIN tasks[i]
        /\ tasks[i]["id"].ty = "int"
        /\ tasks[i]["id"].v > 0

---------------------------------------------------------------------------
(* Claims about the query functions (SpecQuery) *)

\* the task is completed
Done(t) == "completed" \in DOMAIN t /\ t["completed"] = PyBool(TRUE)

\* the task has a due_date that parses as YYYY-MM-DD
GoodDueDate(t) == "due_date" \in DOMAIN t /\ DateParses(t["due_date"].v)

\* C15: get_overdue returns, in input order, exactly the tasks that are not
\* completed and whose due_date is strictly before the current date; a task
\* due today is not overdue, and a completed task is excluded
\* unconditionally, even when its due_date is missing or unparsable.
C15_OverdueResult ==
    (/\ ret.fn = "get_overdue_tasks"
     /\ \A i \in 1..Len(ret.arg) : Done(ret.arg[i]) \/ GoodDueDate(ret.arg[i]))
    => /\ ret.exc = ""
       /\ ret.pos = SelectSeq(Positions(ret.arg),
                       LAMBDA i : /\ ~Done(ret.arg[i])
                                  /\ DateLess(ret.arg[i]["due_date"].v,
                                              Today(clock)))
       /\ ret.val = Pick(ret.arg, ret.pos)
       /\ \A k \in 1..Len(ret.val) :
             /\ ret.val[k]["due_date"].v # FormatDate(Today(clock))
             /\ ~Done(ret.val[k])

\* C15 witness: the collection held a completed task without a usable
\* due_date and an incomplete task due before today; only the latter was
\* returned
C15_Witness ==
    /\ ret.fn = "get_overdue_tasks"
    /\ ret.exc = ""
    /\ Len(ret.arg) = 2
    /\ Done(ret.arg[1])
    /\ ~GoodDueDate(ret.arg[1])
    /\ ret.pos = <<2>>
    /\ ret.val = <<ret.arg[2]>>

\* C16: get_overdue raises an error, and returns no result, whenever the
\* collection contains at least one incomplete task that lacks a due_date
\* field or whose due_date does not parse as YYYY-MM-DD, wherever that task
\* sits in the collection.
C16_OverdueRaises ==
    (/\ ret.fn = "get_overdue_tasks"
     /\ \E i \in 1..Len(ret.arg) : ~Done(ret.arg[i]) /\ ~GoodDueDate(ret.arg[i]))
    => /\ ret.exc # ""
       /\ ret.val = << >>

\* C16 witness: an overdue task came first and an incomplete task without a
\* due_date last, and get_overdue raised
C16_Witness ==
    /\ ret.fn = "get_overdue_tasks"
    /\ Len(ret.arg) = 2
    /\ ~Done(ret.arg[1])
    /\ GoodDueDate(ret.arg[1])
    /\ DateLess(ret.arg[1]["due_date"].v, Today(clock))
    /\ ~Done(ret.arg[2])
    /\ "due_date" \notin DOMAIN ret.arg[2]
    /\ ret.exc = "ValueError"

\* the text s contains the text q when letter case is ignored
ContainsIgnoringCase(s, q) ==
    \E k \in 0..(Len(s) - Len(q)) :
        \A j \in 1..Len(q) : LowerChar(s[k + j]) = LowerChar(q[j])

\* the text of field k of task t, empty when the field is missing
TextOf(t, k) == IF k \in DOMAIN t THEN t[k].v ELSE << >>

\* the task passes validate
PassesValidate(t) == validate_task(Dict(t), clock).val

\* C17: for a non-empty query, search returns, in input order, exactly the
\* tasks that pass validate and whose title or description contains the
\* query as a substring ignoring letter case; a task that fails validation
\* is left out of the result without an error.
C17_SearchResult ==
    (ret.fn = "search_tasks" /\ ret.q # PyNone /\ Len(ret.q.v) > 0) =>
        /\ ret.exc = ""
        /\ ret.pos = SelectSeq(Positions(ret.arg),
                        LAMBDA i :
                            /\ PassesValidate(ret.arg[i])
                            /\ \/ ContainsIgnoringCase(
                                      TextOf(ret.arg[i], "title"), ret.q.v)
                               \/ ContainsIgnoringCase(
                                      TextOf(ret.arg[i], "description"), ret.q.v))
        /\ ret.val = Pick(tasks, ret.pos)

\* C17 witness: the query "aB" was searched in a collection whose first
\* task fails validation although its description is "Ab", and whose second
\* task has the title "Ab": only the second was returned
C17_Witness ==
    /\ ret.fn = "search_tasks"
    /\ ret.q = PyStr(<<"a", "B">>)
    /\ Len(ret.arg) = 2
    /\ ~PassesValidate(ret.arg[1])
    /\ TextOf(ret.arg[1], "description") = <<"A", "b">>
    /\ TextOf(ret.arg[2], "title") = <<"A", "b">>
    /\ ret.exc = ""
    /\ ret.pos = <<2>>

\* C18: search with an empty string or an absent (null) query returns an
\* empty sequence for every collection.
C18_EmptyQuery ==
    (ret.fn = "search_tasks" /\ (ret.q = PyNone \/ ret.q = PyStr(<< >>))) =>
        (ret.exc = "" /\ ret.val = << >>)

\* C18 witness: a null query was searched in a collection of two tasks that
\* pass validate, and nothing was returned
C18_Witness ==
    /\ ret.fn = "search_tasks"
    /\ ret.q = PyNone
    /\ Len(ret.arg) = 2
    /\ PassesValidate(ret.arg[1])
    /\ PassesValidate(ret.arg[2])
    /\ ret.val = << >>

\* C19: no query operation (filter_by_priority, filter_by_category,
\* filter_by_completion, search, get_overdue) mutates the collection it is
\* given: after the call the collection has the same tasks in the same order
\* and every task has the same fields and values as before.
C19_QueriesDoNotMutate ==
    ret.fn \in {"filter_tasks_by_priority", "filter_tasks_by_category",
                "filter_tasks_by_completion", "search_tasks",
                "get_overdue_tasks"}
    => tasks = ret.arg

\* the positions of the tasks of ts that have the field k with the value x
WithField(ts, k, x) ==
    SelectSeq(Positions(ts), LAMBDA i : k \in DOMAIN ts[i] /\ ts[i][k] = x)

\* C20 as stated: filter_by_priority(tasks, p) returns exactly the tasks
\* whose priority equals p, and filter_by_category(tasks, c) exactly the
\* tasks whose category equals c, each in the original relative order and
\* with nothing added.
C20_Original ==
    /\ ret.fn = "filter_tasks_by_priority" =>
          /\ ret.pos = WithField(ret.arg, "priority", ret.q)
          /\ ret.val = Pick(ret.arg, ret.pos)
    /\ ret.fn = "filter_tasks_by_category" =>
          /\ ret.pos = WithField(ret.arg, "category", ret.q)
          /\ ret.val = Pick(ret.arg, ret.pos)

\* C20 amended: for p other than the sentinel "NonExistent",
\* filter_by_priority(tasks, p) returns exactly the tasks whose priority
\* equals p, and for c other than "NonExistent" filter_by_category(tasks, c)
\* exactly the tasks whose category equals c, each in the original relative
\* order; with the sentinel both return an empty sequence.
C20_FilterExceptSentinel ==
    /\ ret.fn = "filter_tasks_by_priority" =>
          /\ ret.pos = IF ret.q = PyStr("NonExistent") THEN << >>
                       ELSE WithField(ret.arg, "priority", ret.q)
          /\ ret.val = Pick(ret.arg, ret.pos)
    /\ ret.fn = "filter_tasks_by_category" =>
          /\ ret.pos = IF ret.q = PyStr("NonExistent") THEN << >>
                       ELSE WithField(ret.arg, "category", ret.q)
          /\ ret.val = Pick(ret.arg, ret.pos)

\* C20 witness: the priority Low was filtered in a collection whose first
\* task has no priority or another one and whose second task has Low: the
\* second was returned
C20_Witness ==
    /\ ret.fn = "filter_tasks_by_priority"
    /\ ret.q = PyStr("Low")
    /\ Len(ret.arg) = 2
    /\ "priority" \notin DOMAIN ret.arg[1]
    /\ ret.pos = <<2>>
    /\ ret.val = <<ret.arg[2]>>

\* C21: filter_by_priority and filter_by_category called with the sentinel
\* value "NonExistent" return an empty sequence for every collection,
\* including a collection that holds a task whose priority or category is
\* literally "NonExistent".
C21_SentinelEmpty ==
    (/\ ret.fn \in {"filter_tasks_by_priority", "filter_tasks_by_category"}
     /\ ret.q = PyStr("NonExistent"))
    => (ret.exc = "" /\ ret.val = << >>)

\* C21 witness: the category "NonExistent" was filtered in a collection
\* holding a task of that category, and nothing was returned
C21_Witness ==
    /\ ret.fn = "filter_tasks_by_category"
    /\ ret.q = PyStr("NonExistent")
    /\ \E i \in 1..Len(ret.arg) :
          /\ "category" \in DOMAIN ret.arg[i]
          /\ ret.arg[i]["category"] = PyStr("NonExistent")
    /\ ret.val = << >>

\* C22 as stated: filter_by_completion(tasks, b) returns the tasks whose
\* completed field equals b, where a task that has no completed field is
\* treated as completed = false: it is returned for b = false and not for
\* b = true.
C22_Original ==
    ret.fn = "filter_tasks_by_completion" =>
        ret.pos = SelectSeq(Positions(ret.arg),
                     LAMBDA i :
                        IF "completed" \in DOMAIN ret.arg[i]
                        THEN ret.arg[i]["completed"] = ret.q
                        ELSE ret.q = PyBool(FALSE))

\* C22 amended: filter_by_completion(tasks, b) returns, in order, exactly
\* the tasks that have a completed field equal to b; a task that has no
\* completed field is returned neither for b = false nor for b = true.
C22_CompletionExplicit ==
    ret.fn = "filter_tasks_by_completion" =>
        /\ ret.exc = ""
        /\ ret.pos = WithField(ret.arg, "completed", ret.q)
        /\ ret.val = Pick(ret.arg, ret.pos)

\* C22 witness: incomplete tasks were filtered in a collection of a task
\* without a completed field and a task with completed = false: only the
\* second was returned
C22_Witness ==
    /\ ret.fn = "filter_tasks_by_completion"
    /\ ret.q = PyBool(FALSE)
    /\ Len(ret.arg) = 2
    /\ "completed" \notin DOMAIN ret.arg[1]
    /\ "completed" \in DOMAIN ret.arg[2]
    /\ ret.arg[2]["completed"] = PyBool(FALSE)
    /\ ret.pos = <<2>>

\* C23: a task that has no completed field is returned by
\* filter_by_completion neither for completed = true nor for completed =
\* false; only tasks that carry the field explicitly are returned.
C23_MissingCompletedNeverReturned ==
    ret.fn = "filter_tasks_by_completion" =>
        /\ \A k \in 1..Len(ret.val) : "completed" \in DOMAIN ret.val[k]
        /\ \A i \in 1..Len(ret.arg) :
              "completed" \notin DOMAIN ret.arg[i] =>
                  \A k \in 1..Len(ret.pos) : ret.pos[k] # i

\* C23 witness: incomplete tasks were filtered in a collection of a task
\* without a completed field and a completed task, and nothing was returned
C23_Witness ==
    /\ ret.fn = "filter_tasks_by_completion"
    /\ ret.q = PyBool(FALSE)
    /\ Len(ret.arg) = 2
    /\ "completed" \notin DOMAIN ret.arg[1]
    /\ Done(ret.arg[2])
    /\ ret.val = << >>

\* the positions filter_by_completion(tasks, false) returns for the
\* collection get_overdue was given
IncompleteByFilter ==
    LET pos == filter_tasks_by_completion(ret.arg, PyBool(FALSE))
    IN  {pos[k] : k \in 1..Len(pos)}

\* C27 as stated: every task returned by get_overdue(tasks) is also
\* returned by filter_by_completion(tasks, false): the two operations agree
\* on which tasks count as incomplete, including tasks that have no
\* completed field.
C27_Original ==
    (ret.fn = "get_overdue_tasks" /\ ret.exc = "") =>
        \A k \in 1..Len(ret.pos) : ret.pos[k] \in IncompleteByFilter

\* C27 amended: every task returned by get_overdue(tasks) that has a
\* completed field is also returned by filter_by_completion(tasks, false);
\* a task that has no completed field counts as incomplete for get_overdue
\* but is not returned by filter_by_completion(tasks, false).
C27_AgreeOnExplicit ==
    (ret.fn = "get_overdue_tasks" /\ ret.exc = "") =>
        \A k \in 1..Len(ret.pos) :
            ret.pos[k] \in IncompleteByFilter
                <=> "completed" \in DOMAIN ret.arg[ret.pos[k]]

\* C27 witness: get_overdue returned a task without a completed field and a
\* task with completed = false; filter_by_completion(tasks, false) returns
\* only the second
C27_Witness ==
    /\ ret.fn = "get_overdue_tasks"
    /\ ret.exc = ""
    /\ ret.pos = <<1, 2>>
    /\ "completed" \notin DOMAIN ret.arg[1]
    /\ "completed" \in DOMAIN ret.arg[2]
    /\ IncompleteByFilter = {2}

---------------------------------------------------------------------------
(* Claims about the life of a record (SpecLife) *)

---------------------------------------------------------------------------
(* Claims about insertions (SpecInsert) *)

\* C25: after any sequence of create calls and UI add or edit submissions,
\* every task in the collection has a non-empty title: no record with an
\* empty title is ever inserted.
C25_NoEmptyTitle ==
    \A i \in 1..Len(tasks) :
        /\ "title" \in DOMAIN tasks[i]
        /\ tasks[i]["title"].ty = "str"
        /\ Len(tasks[i]["title"].v) > 0

\* C25 witness: an insertion with an empty title was refused, by the form
\* or by create_task, in a collection holding a created and a submitted task
C25_Witness ==
    /\ ret.fn \in {"submit", "add_new_task"}
    /\ ret.title = << >>
    /\ ~ret.added
    /\ \E i, j \in 1..Len(tasks) :
          /\ "created_at" \in DOMAIN tasks[i]
          /\ "created_at" \notin DOMAIN tasks[j]

---------------------------------------------------------------------------
(* Further claims about generate_unique_id (SpecFn) *)

\* the tasks of a collection that have no id field
WithoutId(ts) == {i \in 1..Len(ts) : "id" \notin DOMAIN ts[i]}

\* C26: generate_unique_id counts a task that has no id field as id 0: for
\* a collection in which no task has an id field it returns 1, with other
\* tasks holding integer ids it returns one more than the largest of these
\* ids and 0, and its result is never negative.
C26_MissingIdCountsAsZero ==
    ret.fn = "generate_unique_id" =>
        /\ WithoutId(ret.arg) = 1..Len(ret.arg) =>
              ret.exc = "" /\ ret.val = 1
        /\ ret.exc = "" /\ WithoutId(ret.arg) # {} =>
              ret.val = MaxOf(IntIds(ret.arg) \cup {0}) + 1
        /\ ret.exc = "" => ret.val >= 0

\* C26 witness: generate_unique_id returned 1 for a collection of two tasks
\* without an id field
C26_Witness ==
    /\ ret.fn = "generate_unique_id"
    /\ Len(ret.arg) >= 2
    /\ WithoutId(ret.arg) = 1..Len(ret.arg)
    /\ ret.exc = ""
    /\ ret.val = 1

---------------------------------------------------------------------------
(* Further claims about the UI session (SpecApp) *)

\* C28: pressing Delete on a displayed task removes that task from the
\* session's task collection whatever filter is active, so the collection
\* is one task shorter afterwards.
C28_DeleteRemoves ==
    [][ret'.fn = "delete" => Len(tasks') = Len(tasks) - 1]_vars

\* C29: whenever a task is selected for editing, it is still an element of
\* the session's task collection, and a form submission never raises.
C29_EditingTaskInCollection ==
    /\ editing_task # PyNone =>
          /\ editing_task.at \in 1..Len(tasks)
          /\ tasks[editing_task.at] = editing_task.v
    /\ ret.fn = "submit" => ret.exc = ""

---------------------------------------------------------------------------
(* Claims about ids over insertions and deletions (SpecIds) *)

\* C30 as stated: across any sequence of insertions and deletions, an id
\* that was once assigned to a task is never assigned again to a different
\* task, also after the task that held it has been deleted.
C30_Original ==
    ret.fn = "insert" => ~ret.reused

\* C30, amended: across any sequence of insertions and deletions, the id
\* assigned to an inserted task is greater than the id of every task then in
\* the collection, so the tasks of the collection always have different
\* ids; an id is assigned again only when the task that held it, and every
\* task with a greater id, has been deleted.
C30_NoReuseWhileHeld ==
    /\ \A i, j \in 1..Len(tasks) : i # j => tasks[i]["id"] # tasks[j]["id"]
    /\ ret.fn = "insert" =>
          \A i \in 1..Len(ret.arg) : ret.arg[i]["id"].v < ret.id

\* C30 witness: an id assigned before was assigned again, to a task inserted
\* next to another task
C30_Witness ==
    /\ ret.fn = "insert"
    /\ ret.reused
    /\ Len(ret.arg) > 0
    /\ tasks[Len(tasks)]["id"] = PyInt(ret.id)

===========================================================================
